---- MODULE Spec2Model ----
(***************************************************************************)
(* A model of code-tardis (src/src/main.rs): one invocation of the tool    *)
(* over a file system holding the editor's local-history store.            *)
(*                                                                         *)
(* A path is the sequence of its components (the root is <<>>); a file is  *)
(* a record [readable, json, data]: `json` is what serde_json sees in the  *)
(* file's text, `data` stands for its bytes.                               *)
(***************************************************************************)
EXTENDS Integers, Sequences, FiniteSets, TLC

VARIABLES fs,           \* the file system: path -> file
          fs0,          \* the file system when the invocation started
          denied,       \* directories walkdir cannot open
          cwd,          \* the process's current directory
          args,         \* the parsed command line (Tardis)
          current_dir,  \* main: current_dir
          pending,      \* entries.json files the walk has not yielded yet
          found_files,  \* main: found_files
          idx,          \* position of the for loop over found_files
          out,          \* lines printed so far
          writes,       \* the std::fs::copy calls that succeeded, in order
          pc,           \* "start", "scan", "list", "restore", "done", "error"
          err           \* the message of the error main returned

vars == <<fs, fs0, denied, cwd, args, current_dir, pending, found_files,
          idx, out, writes, pc, err>>

----------------------------------------------------------------------------
(* Bounds *)

\* number of metadata directories in the store (besides the one too deep)
NumDirs == 2

----------------------------------------------------------------------------
(* Paths *)

IsPrefix(s, t) == Len(s) <= Len(t) /\ SubSeq(t, 1, Len(s)) = s

Parent(p) == SubSeq(p, 1, Len(p) - 1)

FileName(p) == p[Len(p)]

home_dir == <<"h">>

CODE_HISTORY_DIR == <<"History">>

history_dir == home_dir \o CODE_HISTORY_DIR

MaxDepth == 3

DirNames == <<"d1", "d2", "d3", "d4">>

MetaDir(i) == history_dir \o <<DirNames[i]>>

\* a metadata directory below walkdir's max_depth
DeepDir == history_dir \o <<"g1", "g2", "deep">>

EntryIds == <<"a", "b">>

\* the directories of the file system; none is created or removed
Dirs ==
    { <<>>, <<"a">>, <<"a", "b">>, <<"a", "bc">>, home_dir, history_dir,
      history_dir \o <<"g1">>, history_dir \o <<"g1", "g2">>, DeepDir }
    \cup { MetaDir(i) : i \in 1..NumDirs }

----------------------------------------------------------------------------
(* The text of a file as serde_json sees it *)

\* a JSON scalar: an integer, or something that is not an integer
JInt(n) == [t |-> "int", n |-> n]

JStr == [t |-> "str", n |-> 0]

\* a JSON string holding a URL with this scheme and this path
Res(scheme, path) == [valid |-> TRUE, scheme |-> scheme, path |-> path]

\* a JSON string url::Url cannot parse
BadRes == [valid |-> FALSE, scheme |-> "", path |-> <<>>]

Doc(v, r, e) == [wellformed |-> TRUE, version |-> v, resource |-> r, entries |-> e]

\* text that is not a JSON object at all
NoJson == [wellformed |-> FALSE, version |-> JStr, resource |-> BadRes, entries |-> <<>>]

File(readable, json, data) == [readable |-> readable, json |-> json, data |-> data]

\* the bytes of a file
Bytes(f) == <<f.json, f.data>>

----------------------------------------------------------------------------
(* struct CodeHistoryInfo, struct CodeHistoryEntry and their Deserialize *)

\* version: u32 (every value of the model is below 2^32)
de_u32_any_int(j) == j.t = "int"

de_u32(j) == j.t = "int" /\ j.n >= 0

\* timestamp: ts_milliseconds, an integer of milliseconds since the epoch
de_ts_milliseconds(j) == j.t = "int"

\* resource: url::Url
de_url(r) == r.valid

NoInfo == [version |-> 0, resource |-> [scheme |-> "", path |-> <<>>], entries |-> <<>>]

\* serde_json::from_str::<CodeHistoryInfo>: [ok, info]
from_str(json) ==
    IF /\ json.wellformed
       /\ de_u32(json.version)
       /\ de_url(json.resource)
       /\ \A k \in 1..Len(json.entries) : de_ts_milliseconds(json.entries[k].timestamp)
    THEN [ok |-> TRUE,
          info |-> [version |-> json.version.n,
                    resource |-> [scheme |-> json.resource.scheme,
                                  path |-> json.resource.path],
                    entries |-> [k \in 1..Len(json.entries) |->
                                    [id |-> json.entries[k].id,
                                     timestamp |-> json.entries[k].timestamp.n]]]]
    ELSE [ok |-> FALSE, info |-> NoInfo]

----------------------------------------------------------------------------
(* impl CodeHistoryFile *)

current_file(file) == file.info.resource.path

backup_files(file) ==
    [k \in 1..Len(file.info.entries) |->
        [ts |-> file.info.entries[k].timestamp,
         path |-> file.dir \o <<file.info.entries[k].id>>]]

is_scheme(file, scheme) == file.info.resource.scheme = scheme

----------------------------------------------------------------------------
(* std::path and std::fs *)

\* whether the string s is a prefix of the string t, for the component names
\* of the model
StringPrefix(s, t) == s = t \/ <<s, t>> \in { <<"b", "bc">> }

\* a prefix test on the paths' text instead of their components
starts_with_text(path, base) ==
    \/ base = <<>>
    \/ /\ Len(base) <= Len(path)
       /\ SubSeq(path, 1, Len(base) - 1) = SubSeq(base, 1, Len(base) - 1)
       /\ StringPrefix(base[Len(base)], path[Len(base)])

\* Path::starts_with: component-wise
starts_with(path, base) == IsPrefix(base, path)

\* Path::strip_prefix: [ok, rel]
strip_prefix(path, base) ==
    IF starts_with(path, base)
    THEN [ok |-> TRUE, rel |-> SubSeq(path, Len(base) + 1, Len(path))]
    ELSE [ok |-> FALSE, rel |-> <<>>]

\* Path::canonicalize of args.dir: [ok, path]
canonicalize(dir, wd) ==
    LET p == IF dir.abs THEN dir.comps ELSE wd \o dir.comps
    IN  [ok |-> p \in Dirs, path |-> p]

\* the relative path cut down to its file name
restore_dest_file_name(rel, wd) == IF rel = <<>> THEN <<>> ELSE wd \o <<FileName(rel)>>

\* the file a relative path names when std::fs::copy opens it: the operating
\* system resolves it against the process's current directory
restore_dest(rel, wd) == IF rel = <<>> THEN <<>> ELSE wd \o rel

\* std::fs::copy(src, dst) can succeed
CanCopy(f, src, dst) ==
    /\ src \in DOMAIN f
    /\ f[src].readable
    /\ dst # <<>>
    /\ dst \notin Dirs
    /\ Parent(dst) \in Dirs

\* the file systems std::fs::copy(src, dst) can leave.  Copying a file onto
\* itself opens it for writing with truncation while it is the source: it is
\* left as it was or empty, depending on the platform's copy primitive.
CopyResults(f, src, dst) ==
    IF src = dst
    THEN { f, [f EXCEPT ![dst] = File(f[dst].readable, NoJson, 0)] }
    ELSE { [p \in DOMAIN f \cup {dst} |-> IF p = dst THEN f[src] ELSE f[p]] }

----------------------------------------------------------------------------
(* main: the scan *)

\* the entries.json files WalkDir::new(history_dir).max_depth(3) yields as Ok
\* entries; what lies in a directory it cannot open is dropped by
\* filter_map(|e| e.ok())
Discovered(f, den) ==
    { p \in DOMAIN f :
        /\ IsPrefix(history_dir, p)
        /\ Len(p) - Len(history_dir) >= 1
        /\ Len(p) - Len(history_dir) <= MaxDepth
        /\ FileName(p) = "entries.json"
        /\ \A d \in den : ~IsPrefix(d, p) }

\* the closure with a metadata file that does not decode skipped
ScanResultSkipMalformed(p, f, cur) ==
    IF ~f[p].readable
    THEN [kind |-> "err", msg |-> "Could not read file", file |-> [dir |-> <<>>, info |-> NoInfo]]
    ELSE LET d    == from_str(f[p].json)
             file == [dir |-> Parent(p), info |-> d.info]
         IN  IF d.ok /\ is_scheme(file, "file") /\ starts_with(current_file(file), cur)
             THEN [kind |-> "some", msg |-> "", file |-> file]
             ELSE [kind |-> "none", msg |-> "", file |-> file]

\* the closure with a metadata file that cannot be read skipped
ScanResultSkipUnreadable(p, f, cur) ==
    IF ~f[p].readable
    THEN [kind |-> "none", msg |-> "", file |-> [dir |-> <<>>, info |-> NoInfo]]
    ELSE LET d    == from_str(f[p].json)
             file == [dir |-> Parent(p), info |-> d.info]
         IN  IF ~d.ok
             THEN [kind |-> "err", msg |-> "decode", file |-> file]
             ELSE IF is_scheme(file, "file") /\ starts_with(current_file(file), cur)
                  THEN [kind |-> "some", msg |-> "", file |-> file]
                  ELSE [kind |-> "none", msg |-> "", file |-> file]

\* the closure of .map(|e| ...) on one discovered file: Err(msg), Ok(Some(file))
\* or Ok(None)
ScanResult(p, f, cur) ==
    IF ~f[p].readable
    THEN [kind |-> "err", msg |-> "Could not read file", file |-> [dir |-> <<>>, info |-> NoInfo]]
    ELSE LET d    == from_str(f[p].json)
             file == [dir |-> Parent(p), info |-> d.info]
         IN  IF ~d.ok
             THEN [kind |-> "err", msg |-> "decode", file |-> file]
             ELSE IF is_scheme(file, "file") /\ starts_with(current_file(file), cur)
                  THEN [kind |-> "some", msg |-> "", file |-> file]
                  ELSE [kind |-> "none", msg |-> "", file |-> file]

----------------------------------------------------------------------------
(* main: the commands *)

RECURSIVE NamedRecords(_, _, _)
\* the records of s whose relative path is among files
NamedRecords(s, cur, files) ==
    IF s = <<>> THEN <<>>
    ELSE LET r == strip_prefix(current_file(Head(s)), cur)
         IN  (IF r.ok /\ \E k \in 1..Len(files) : files[k] = r.rel
              THEN <<Head(s)>> ELSE <<>>) \o NamedRecords(Tail(s), cur, files)

\* the records named by the files argument, all of them when it is empty
RestoreTargetsNamed(found, cur, files) ==
    IF files = <<>> THEN found ELSE NamedRecords(found, cur, files)

\* the records Command::Restore { files: _ } loops over
RestoreTargets(found, cur, files) == found

\* the backup with the greatest timestamp
SelectNewest(bf) ==
    CHOOSE b \in { bf[k] : k \in 1..Len(bf) } :
        \A k \in 1..Len(bf) : bf[k].ts <= b.ts

\* backup_files().last()
SelectBackup(bf) == bf[Len(bf)]

\* the loop going on to the next record after a failure
RestoreNextPcContinue(failed) == "restore"

\* `?` in the restore loop: an Err leaves main
RestoreNextPc(failed) == IF failed THEN "error" ELSE "restore"

----------------------------------------------------------------------------
(* The initial states: a store, a current directory, a command line *)

Entry(id, ts) == [id |-> id, timestamp |-> ts]

EntriesAB == <<Entry("a", JInt(1000)), Entry("b", JInt(2000))>>

\* the resource strings a metadata file of the model can hold
Resources ==
    { Res("file", <<"a", "b", "x.txt">>),
      Res("file", <<"a", "bc", "x.txt">>),
      Res("http", <<"a", "b", "x.txt">>),
      Res("untitled", <<"Untitled-1">>),
      Res("file", <<"a", "b">>),
      Res("file", MetaDir(1) \o <<"b">>),
      BadRes }

\* the entry arrays a metadata file of the model can hold: none, two in
\* timestamp order, two out of timestamp order, one whose timestamp is a string
EntryLists ==
    { <<>>,
      EntriesAB,
      <<Entry("b", JInt(2000)), Entry("a", JInt(1000))>>,
      <<Entry("a", JStr)>> }

\* the version values a metadata file of the model can hold
Versions == { JInt(1), JInt(7), JInt(-1) }

\* what a metadata directory of the model can be: [json, readable, denied]
MetaChoices ==
    { [json |-> Doc(JInt(1), r, EntriesAB), readable |-> TRUE, denied |-> FALSE] :
        r \in Resources }
    \cup
    { [json |-> Doc(JInt(1), Res("file", <<"a", "b", "x.txt">>), e),
       readable |-> TRUE, denied |-> FALSE] : e \in EntryLists }
    \cup
    { [json |-> Doc(v, Res("file", <<"a", "b", "x.txt">>), EntriesAB),
       readable |-> TRUE, denied |-> FALSE] : v \in Versions }
    \cup
    { [json |-> Doc(JInt(1), Res("file", <<"a", "b", "x.txt">>), EntriesAB),
       readable |-> FALSE, denied |-> FALSE],
      [json |-> Doc(JInt(1), Res("file", <<"a", "b", "x.txt">>), EntriesAB),
       readable |-> TRUE, denied |-> TRUE] }

\* the bytes of the backup file of directory i named EntryIds[k]
BackupData(i, k) == 10 * i + k

\* the file system of a store whose metadata directory i is m[i]
BuildFs(m) ==
    LET orig   == { <<"a", "b", "x.txt">>, <<"a", "bc", "x.txt">> }
        meta   == { MetaDir(i) \o <<"entries.json">> : i \in 1..NumDirs }
        backup == { MetaDir(i) \o <<EntryIds[k]>> : i \in 1..NumDirs, k \in 1..Len(EntryIds) }
        deep   == { DeepDir \o <<"entries.json">>, DeepDir \o <<"a">>, DeepDir \o <<"b">> }
        DirOf(p) == CHOOSE i \in 1..NumDirs : MetaDir(i) = Parent(p)
        IdOf(p)  == CHOOSE k \in 1..Len(EntryIds) : EntryIds[k] = FileName(p)
    IN  [p \in orig \cup meta \cup backup \cup deep |->
            IF p \in orig THEN File(TRUE, NoJson, IF p[2] = "b" THEN 4 ELSE 5)
            ELSE IF p \in meta THEN File(m[DirOf(p)].readable, m[DirOf(p)].json, 2)
            ELSE IF p \in backup THEN File(TRUE, NoJson, BackupData(DirOf(p), IdOf(p)))
            ELSE IF p = DeepDir \o <<"entries.json">>
                 THEN File(TRUE, Doc(JInt(1), Res("file", <<"a", "b", "x.txt">>), EntriesAB), 2)
                 ELSE File(TRUE, NoJson, 3)]

\* the current directories and -C options of the model: the default ".", a
\* relative and an absolute directory, and one that does not exist
Invocations ==
    { [cwd |-> <<"a">>, dir |-> [abs |-> FALSE, comps |-> <<>>]],
      [cwd |-> <<"a">>, dir |-> [abs |-> FALSE, comps |-> <<"b">>]],
      [cwd |-> <<"a", "b">>, dir |-> [abs |-> FALSE, comps |-> <<>>]],
      [cwd |-> home_dir, dir |-> [abs |-> FALSE, comps |-> <<>>]],
      [cwd |-> home_dir, dir |-> [abs |-> TRUE, comps |-> <<"a", "b">>]],
      [cwd |-> <<"a">>, dir |-> [abs |-> TRUE, comps |-> <<"nowhere">>]] }

\* the subcommands of the model
Commands ==
    { [command |-> "List", verbose |-> FALSE, files |-> <<>>],
      [command |-> "List", verbose |-> TRUE, files |-> <<>>],
      [command |-> "Restore", verbose |-> FALSE, files |-> <<>>],
      [command |-> "Restore", verbose |-> FALSE, files |-> << <<"y.txt">> >>] }

Init ==
    /\ \E m \in [1..NumDirs -> MetaChoices] :
          /\ fs = BuildFs(m)
          /\ denied = { MetaDir(i) : i \in { j \in 1..NumDirs : m[j].denied } }
    /\ fs0 = fs
    /\ \E i \in Invocations, c \in Commands :
          /\ cwd = i.cwd
          /\ args = [dir |-> i.dir, command |-> c.command, verbose |-> c.verbose,
                     files |-> c.files]
    /\ current_dir = <<>>
    /\ pending = {}
    /\ found_files = <<>>
    /\ idx = 1
    /\ out = <<>>
    /\ writes = <<>>
    /\ pc = "start"
    /\ err = ""

----------------------------------------------------------------------------
(* main, step by step *)

\* args.dir.canonicalize().context(..)? and the start of the walk
Start ==
    /\ pc = "start"
    /\ LET c == canonicalize(args.dir, cwd)
       IN  IF c.ok
           THEN /\ current_dir' = c.path
                /\ pending' = Discovered(fs, denied)
                /\ pc' = "scan"
                /\ err' = err
           ELSE /\ pc' = "error"
                /\ err' = "Could not find current directory"
                /\ UNCHANGED <<current_dir, pending>>
    /\ UNCHANGED <<fs, fs0, denied, cwd, args, found_files, idx, out, writes>>

\* the iterator chain yields its next item; siblings come in no fixed order.
\* collect::<Result<Vec<_>>>()? stops at the first Err and main returns it.
ScanOne ==
    /\ pc = "scan"
    /\ \E p \in pending :
          LET r == ScanResult(p, fs, current_dir)
          IN  /\ pending' = pending \ {p}
              /\ found_files' = IF r.kind = "some" THEN Append(found_files, r.file)
                                ELSE found_files
              /\ pc' = IF r.kind = "err" THEN "error" ELSE "scan"
              /\ err' = IF r.kind = "err" THEN r.msg ELSE err
    /\ UNCHANGED <<fs, fs0, denied, cwd, args, current_dir, idx, out, writes>>

\* the walk is exhausted: match args.command
ScanDone ==
    /\ pc = "scan"
    /\ pending = {}
    /\ pc' = IF args.command = "List" THEN "list" ELSE "restore"
    /\ idx' = 1
    /\ UNCHANGED <<fs, fs0, denied, cwd, args, current_dir, pending, found_files,
                   out, writes, err>>

\* the lines one iteration of Command::List prints for a record
ListLines(file, rel, verbose) ==
    LET bf == backup_files(file)
    IN  IF verbose
        THEN [k \in 1..Len(bf) |->
                [kind |-> "backup", file |-> rel, ts |-> bf[k].ts, backup |-> bf[k].path,
                 count |-> 0]]
        ELSE << [kind |-> "summary", file |-> rel, ts |-> 0, backup |-> <<>>,
                 count |-> Len(bf)] >>

\* one iteration of the loop of Command::List
ListOne ==
    /\ pc = "list"
    /\ idx <= Len(found_files)
    /\ LET file == found_files[idx]
           sp   == strip_prefix(current_file(file), current_dir)
       IN  IF ~sp.ok
           THEN /\ pc' = "error"
                /\ err' = "prefix not found"
                /\ UNCHANGED <<idx, out>>
           ELSE /\ out' = out \o ListLines(file, sp.rel, args.verbose)
                /\ idx' = idx + 1
                /\ UNCHANGED <<pc, err>>
    /\ UNCHANGED <<fs, fs0, denied, cwd, args, current_dir, pending, found_files, writes>>

\* one iteration of the loop of Command::Restore
RestoreOne ==
    /\ pc = "restore"
    /\ LET targets == RestoreTargets(found_files, current_dir, args.files)
       IN
       /\ idx <= Len(targets)
       /\ LET file == targets[idx]
              sp   == strip_prefix(current_file(file), current_dir)
              bf   == backup_files(file)
              sel  == SelectBackup(bf)
              dst  == restore_dest(sp.rel, cwd)
              Fail(msg) == /\ pc' = RestoreNextPc(TRUE)
                           /\ err' = msg
                           /\ idx' = IF pc' = "error" THEN idx ELSE idx + 1
          IN  IF ~sp.ok
              THEN Fail("prefix not found") /\ UNCHANGED <<fs, out, writes>>
              ELSE IF bf = <<>>
              THEN Fail("No backup files found") /\ UNCHANGED <<fs, out, writes>>
              ELSE /\ out' = Append(out, [kind |-> "restoring", file |-> sp.rel, ts |-> sel.ts,
                                          backup |-> sel.path, count |-> 0])
                   /\ IF ~CanCopy(fs, sel.path, dst)
                      THEN Fail("copy failed") /\ UNCHANGED <<fs, writes>>
                      ELSE /\ fs' \in CopyResults(fs, sel.path, dst)
                           /\ writes' = Append(writes, [rec |-> file.dir, src |-> sel.path,
                                                        dst |-> dst, data |-> Bytes(fs'[dst])])
                           /\ pc' = RestoreNextPc(FALSE)
                           /\ idx' = idx + 1
                           /\ err' = err
    /\ UNCHANGED <<fs0, denied, cwd, args, current_dir, pending, found_files>>

\* the loop is over: Ok(())
Finish ==
    /\ \/ pc = "list" /\ idx > Len(found_files)
       \/ pc = "restore" /\ idx > Len(RestoreTargets(found_files, current_dir, args.files))
    /\ pc' = "done"
    /\ UNCHANGED <<fs, fs0, denied, cwd, args, current_dir, pending, found_files,
                   idx, out, writes, err>>

Next == Start \/ ScanOne \/ ScanDone \/ ListOne \/ RestoreOne \/ Finish

Spec == Init /\ [][Next]_vars

----------------------------------------------------------------------------
(* Notions the properties below are stated with *)

\* main got past the scan: found_files is complete
Scanned == pc \in {"list", "restore", "done"}

\* nothing was printed and no file was written
NoEffect == out = <<>> /\ writes = <<>> /\ fs = fs0

\* the invocation never gets past the scan
NeverPastScan == ~Scanned /\ (pc = "scan" => pending # {})

\* the metadata files the scan came across
Found == Discovered(fs0, denied)

\* path q is base or lies below it, component by component
Under(q, base) ==
    /\ Len(base) <= Len(q)
    /\ \A j \in 1..Len(base) : q[j] = base[j]

\* the directories of the records in found_files
FoundDirs == { found_files[k].dir : k \in 1..Len(found_files) }

\* the record of found_files read from directory d
RecordOf(d) == CHOOSE f \in { found_files[k] : k \in 1..Len(found_files) } : f.dir = d

\* the versions the editor's store format is known in
RecognizedVersions == { JInt(1) }

----------------------------------------------------------------------------
(* C1 *)

\* C1 (as claimed): after a Restore that completes without error, the file at
\* every correlated record's original absolute path holds the bytes of the
\* backup file named by the record's last entry, whatever the working directory.
C1_RestoreWritesOriginal ==
    (pc = "done" /\ args.command = "Restore") =>
        \A k \in 1..Len(found_files) :
            LET f  == found_files[k]
                n  == Len(f.info.entries)
            IN  /\ n >= 1
                /\ f.info.resource.path \in DOMAIN fs
                /\ Bytes(fs[f.info.resource.path]) =
                       Bytes(fs[f.dir \o <<f.info.entries[n].id>>])

----------------------------------------------------------------------------
(* C2 *)

\* C2: once the scan is complete, a parsed record is in found_files exactly
\* when its scheme is "file" and its path is the working directory or lies
\* below it by whole components.
C2_Correlation ==
    Scanned =>
        \A p \in Found :
            LET d == from_str(fs0[p].json)
            IN  d.ok =>
                  ( Parent(p) \in FoundDirs
                    <=> /\ d.info.resource.scheme = "file"
                        /\ Under(d.info.resource.path, current_dir) )

\* with /a/b the working directory, /a/b/x.txt is in and /a/bc/x.txt is out
C2_Witness ==
    /\ Scanned
    /\ current_dir = <<"a", "b">>
    /\ \E k \in 1..Len(found_files) :
          found_files[k].info.resource.path = <<"a", "b", "x.txt">>
    /\ \E p \in Found :
          /\ fs0[p].json.resource = Res("file", <<"a", "bc", "x.txt">>)
          /\ Parent(p) \notin FoundDirs

----------------------------------------------------------------------------
(* C3 *)

\* C3: when a metadata file the scan comes across does not decode, the
\* invocation never gets past the scan, prints nothing and writes nothing, and
\* an error it ends with comes from the start or the scan.  (Stated by its
\* contrapositive: a run that is past the scan, or has had an effect, or ended
\* with another error, has come across no such file.)
C3_MalformedAborts ==
    ~( /\ NeverPastScan
       /\ NoEffect
       /\ pc = "error" =>
             err \in {"decode", "Could not read file", "Could not find current directory"} )
    => \A p \in Found : fs0[p].readable => from_str(fs0[p].json).ok

\* a Restore aborted by a malformed file that came after a correlated record
C3_Witness ==
    /\ pc = "error"
    /\ err = "decode"
    /\ args.command = "Restore"
    /\ found_files # <<>>

----------------------------------------------------------------------------
(* C4 *)

\* C4 (as claimed): a discovered metadata file that cannot be read is skipped:
\* the invocation does not abort on it and the records are those of the
\* readable files.
C4_UnreadableSkipped ==
    /\ err # "Could not read file"
    /\ Scanned =>
          FoundDirs = { Parent(p) : p \in { q \in Found :
                            /\ fs0[q].readable
                            /\ from_str(fs0[q].json).ok
                            /\ fs0[q].json.resource.scheme = "file"
                            /\ Under(fs0[q].json.resource.path, current_dir) } }

\* C4 (amended): a discovered metadata file that cannot be read makes the
\* invocation abort before any effect; only what the traversal itself cannot
\* reach is skipped without an error.  (The first conjunct is the abort, by
\* its contrapositive.)
C4_UnreadableAborts ==
    /\ ~(NeverPastScan /\ NoEffect) => \A p \in Found : fs0[p].readable
    /\ err = "Could not read file" =>
          pc = "error" /\ \E p \in Found : ~fs0[p].readable
    /\ \A k \in 1..Len(found_files) : found_files[k].dir \notin denied
    /\ \A p \in pending : \A d \in denied : ~Under(p, d)

\* an abort on an unreadable file in a store that also holds a directory the
\* traversal could not open
C4_Witness ==
    /\ pc = "error"
    /\ err = "Could not read file"
    /\ denied # {}

----------------------------------------------------------------------------
(* C5 *)

----------------------------------------------------------------------------
(* C6 *)

\* C6: every copy and every "Restoring" line takes the backup file of the last
\* element of the record's entries, in stored order, and the verbose listing
\* gives a record's backups in stored order.
C6_LastEntrySelected ==
    /\ \A k \in 1..Len(writes) :
          LET f == RecordOf(writes[k].rec)
              n == Len(f.info.entries)
          IN  n >= 1 /\ writes[k].src = f.dir \o <<f.info.entries[n].id>>
    /\ \A i \in 1..Len(out) :
          out[i].kind = "restoring" =>
              LET f == RecordOf(Parent(out[i].backup))
                  n == Len(f.info.entries)
              IN  /\ n >= 1
                  /\ out[i].backup = f.dir \o <<f.info.entries[n].id>>
                  /\ out[i].ts = f.info.entries[n].timestamp
    /\ \A i \in 1..Len(out) :
          out[i].kind = "backup" =>
              LET f == RecordOf(Parent(out[i].backup))
              IN  \E k \in 1..Len(f.info.entries) :
                     /\ out[i].backup = f.dir \o <<f.info.entries[k].id>>
                     /\ out[i].ts = f.info.entries[k].timestamp
                     /\ k > 1 => /\ i > 1
                                 /\ out[i - 1].backup = f.dir \o <<f.info.entries[k - 1].id>>

\* a copy from a record whose last entry is older than its first
C6_Witness ==
    \E k \in 1..Len(writes) :
        LET f == RecordOf(writes[k].rec)
            n == Len(f.info.entries)
        IN  /\ n >= 2
            /\ f.info.entries[1].timestamp > f.info.entries[n].timestamp
            /\ writes[k].src = f.dir \o <<f.info.entries[n].id>>

----------------------------------------------------------------------------
(* C7 *)

\* C7: when the restore of the record at position idx fails, main ends with
\* the error and takes no further step; the records before it, and only
\* they, were copied, each destination still holding what its last copy
\* wrote; and no record after it was reported.
C7_FailStop ==
    err \in {"No backup files found", "copy failed"} =>
        /\ pc = "error"
        /\ ~ENABLED Next
        /\ idx \in 1..Len(found_files)
        /\ Len(writes) = idx - 1
        /\ \A i \in 1..Len(writes) : writes[i].rec = found_files[i].dir
        /\ Len(out) = IF err = "copy failed" THEN idx ELSE idx - 1
        /\ \A i \in 1..Len(writes) :
              (\A j \in (i + 1)..Len(writes) : writes[j].dst # writes[i].dst) =>
                  /\ writes[i].dst \in DOMAIN fs
                  /\ Bytes(fs[writes[i].dst]) = writes[i].data

\* a failure at the second record, the first one restored and left in place
C7_Witness ==
    /\ pc = "error"
    /\ err \in {"No backup files found", "copy failed"}
    /\ idx = 2
    /\ Len(writes) = 1
    /\ fs # fs0

----------------------------------------------------------------------------
(* C8 *)

----------------------------------------------------------------------------
(* C9 *)

\* C9 (as claimed): a metadata file whose version is not a recognized format
\* version does not decode, so the invocation never gets past the scan.
C9_VersionGuard ==
    (\E p \in Found :
        /\ fs0[p].readable
        /\ fs0[p].json.wellformed
        /\ fs0[p].json.version \notin RecognizedVersions) => ~Scanned

\* C9 (amended): a metadata file whose version is not an unsigned integer
\* does not decode, so the invocation never gets past the scan and has no
\* effect; every unsigned 32-bit value is accepted.  (The first conjunct is
\* the abort, by its contrapositive.)
C9_VersionIsU32 ==
    /\ ~(NeverPastScan /\ NoEffect) =>
          \A p \in Found :
              (fs0[p].readable /\ fs0[p].json.wellformed) =>
                  (fs0[p].json.version.t = "int" /\ fs0[p].json.version.n \in Nat)
    /\ \A k \in 1..Len(found_files) : found_files[k].info.version \in Nat

\* an abort on a file whose only fault is a negative version
C9_Witness ==
    /\ pc = "error"
    /\ err = "decode"
    /\ \E p \in Found :
          /\ fs0[p].json.version = JInt(-1)
          /\ p \notin pending
    /\ \A p \in Found \ pending :
          fs0[p].json.version # JInt(-1) => from_str(fs0[p].json).ok

----------------------------------------------------------------------------
(* C10 *)

\* C10 (as claimed): no path is the destination of two copies.
C10_DestinationOnce ==
    \A i, j \in 1..Len(writes) : i # j => writes[i].dst # writes[j].dst

\* C10 (amended): no record is copied twice, and two copies go to the same
\* path only when their records name the same original path.
C10_RecordOnce ==
    \A i, j \in 1..Len(writes) :
        i # j =>
            /\ writes[i].rec # writes[j].rec
            /\ writes[i].dst = writes[j].dst =>
                  RecordOf(writes[i].rec).info.resource.path =
                      RecordOf(writes[j].rec).info.resource.path

\* two records of one original path, both copied onto it
C10_Witness ==
    /\ Len(writes) = 2
    /\ writes[1].dst = writes[2].dst
    /\ writes[1].rec # writes[2].rec

====
